---- MODULE Spec2Model ----
(***************************************************************************)
(* Voice-note recorder: the capture-process lifecycle (startRecording,     *)
(* stopRecording) and the post-recording pipeline that the Command         *)
(* component's onStart / onStop handlers drive (validate -> transcribe ->  *)
(* clean -> publish).                                                      *)
(*                                                                         *)
(* React state (isRecording, isStopping, startedAt, audioPath, log) and    *)
(* the procRef ref are global variables.  Every invocation of onStop is a  *)
(* "run": an async activation that keeps the values its closure captured   *)
(* when the handler was invoked (audioPath, the child handle) and moves    *)
(* from one await to the next.  One action is one turn of the event loop:  *)
(* the code between two suspension points, with its microtask              *)
(* continuations.                                                          *)
(*                                                                         *)
(* Time is counted in ticks of 100 ms while some stopRecording call is     *)
(* waiting on a timer; a timer fires when its remaining time is 0 and time *)
(* cannot pass beyond a due timer.                                         *)
(***************************************************************************)
EXTENDS Integers, Sequences, FiniteSets, TLC

\* ------------------------------------------------------------------ bounds
\* Number of recordings (onStart calls that spawn) explored.
MaxSessions == 2
\* Number of onStop activations explored.
MaxStops == 2
\* Largest politeMs / interruptMs explored, in ticks.
MaxTimeout == 1
MaxLines == 3
\* Number of recordings explored when progress is checked.
MaxLiveSessions == 1

\* --------------------------------------------------------------- constants
\* await delay(200) after SIGKILL, in ticks of 100 ms.
GraceTicks == 2

\* null for a handle, a path or a stamp (sessions are numbered from 1).
NULL == 0
\* undefined for an optional string.
Undefined == <<"undefined">>
\* No answer of the cleanup endpoint yet.
Unasked == <<"unasked">>

Sessions == 1..MaxSessions
Runs == 1..MaxStops
TimeoutChoices == 0..MaxTimeout

\* Strings are sequences over a two-letter alphabet: " " is whitespace, "a" is
\* any other character.
Chars == {" ", "a"}
\* data.text values the transcription endpoint may answer with (Undefined: no field).
TextChoices == {Undefined, <<>>, <<" ">>, <<" ", "a">>}
\* choices[0].message.content values the cleanup endpoint may answer with.
ContentChoices == {Undefined, <<" ">>, <<" ", "a">>}

\* String.prototype.trim
RECURSIVE TrimLeft(_)
TrimLeft(s) ==
    IF s = <<>> THEN s
    ELSE IF Head(s) = " " THEN TrimLeft(Tail(s)) ELSE s

RECURSIVE TrimRight(_)
TrimRight(s) ==
    IF s = <<>> THEN s
    ELSE IF s[Len(s)] = " " THEN TrimRight(SubSeq(s, 1, Len(s) - 1)) ELSE s

Trim(s) == TrimRight(TrimLeft(s))

\* JavaScript truthiness of an optional string.
Truthy(s) == s # Undefined /\ s # <<>>

VARIABLES
    isRecording,   \* useState: a recording is shown as active
    isStopping,    \* useState: a stop is in progress
    startedAt,     \* useState: NULL or the start stamp (the session's number)
    audioPath,     \* useState: NULL or the wav path (the session's number)
    procRef,       \* useRef: NULL or the child handle (the session's number)
    log,           \* useState: the rolling log, as what each writer appended
    prefs,         \* usePrefs(): the preference values, known once read
    timeouts,      \* the timeouts argument of stopRecording, in ticks
    notion,        \* the frame of a createNotionPageFromMarkdown call
    nSessions,     \* recordings spawned so far
    proc,          \* per session: the ffmpeg child process
    file,          \* per session: the wav file on disk
    unlinked,      \* per session: successful unlink calls on its file
    nRuns,         \* onStop activations so far
    run            \* per activation: its position and captured values

vars == <<isRecording, isStopping, startedAt, audioPath, procRef, log, prefs,
          timeouts, notion, nSessions, proc, file, unlinked, nRuns, run>>

uiVars == <<isRecording, isStopping, startedAt, audioPath, procRef>>

\* A log line: its kind, the path it names (NULL: none) and the text it carries.
Entry(kind, sess, text) == [kind |-> kind, sess |-> sess, text |-> text]

\* An onStop activation that has not been invoked yet.
IdleRun ==
    [pc |-> "idle", child |-> 0, path |-> NULL, timer |-> 0, elapsed |-> 0,
     tiers |-> <<>>, threw |-> "none", closedIn |-> "none",
     text |-> Undefined, content |-> Unasked, md |-> Undefined, calls |-> <<>>,
     seen |-> "none", toast |-> "none", result |-> "none"]

\* The values usePrefs() may return for an optional preference.
PrefChoices == {<<>>, <<"a">>}
\* A preference no handler has read yet.
Unread == <<"unread">>

\* The preferences are fixed for the life of the command; a value is drawn the
\* first time a handler reads it and stays.
Reads(name, value) ==
    /\ prefs[name] \in {Unread, value}
    /\ prefs' = [prefs EXCEPT ![name] = value]

\* No call of createNotionPageFromMarkdown has been made.
NotionIdle ==
    [pc |-> "idle", markdown |-> <<>>, explicitTitle |-> Undefined, blocks |-> <<>>,
     title |-> Undefined, children |-> <<>>, requests |-> <<>>, returned |-> Undefined]

Init ==
    /\ isRecording = FALSE
    /\ isStopping = FALSE
    /\ startedAt = NULL
    /\ audioPath = NULL
    /\ procRef = NULL
    /\ log = [start |-> <<>>,
               child |-> [s \in Sessions |-> <<>>],
               stop |-> [r \in Runs |-> <<>>]]
    /\ prefs = [openaiApiKey |-> Unread, notionToken |-> Unread, notionDatabaseId |-> Unread]
    /\ timeouts \in [q : TimeoutChoices, sigint : TimeoutChoices]
    /\ notion = NotionIdle
    /\ nSessions = 0
    /\ proc = [s \in Sessions |-> "none"]
    /\ file = [s \in Sessions |-> "absent"]
    /\ unlinked = [s \in Sessions |-> 0]
    /\ nRuns = 0
    /\ run = [r \in Runs |-> IdleRun]


\* ----------------------------------------------------------------- helpers
SetRun(r, rec) == run' = [run EXCEPT ![r] = rec]

\* setLog((l) => [...l, entry]): every writer only appends, so the array is an
\* interleaving of what onStart, each child's listeners and each onStop
\* activation appended; the log keeps these subsequences.
StartLogged(entries) == log' = [log EXCEPT !.start = @ \o entries]

ChildLogged(s, entries) == log' = [log EXCEPT !.child[s] = @ \o entries]

StopLogged(r, entries) == log' = [log EXCEPT !.stop[r] = @ \o entries]

\* Every line of the log.
LogLines ==
    {log.start[i] : i \in DOMAIN log.start}
      \cup UNION {{log.child[s][i] : i \in DOMAIN log.child[s]} : s \in Sessions}
      \cup UNION {{log.stop[r][i] : i \in DOMAIN log.stop[r]} : r \in Runs}

\* A finished activation: `result` says how onStop ended, `toast` is the style
\* of the last toast it showed ("none" when it ended by an uncaught exception
\* after an animated toast, which shows no further toast).
Done(rec, result, toast) == [rec EXCEPT !.pc = "done", !.result = result, !.toast = toast]

\* ReleaseHandle without `procRef.current = null`.
ReleaseHandleKeepingRef ==
    /\ isRecording' = FALSE
    /\ isStopping' = FALSE
    /\ UNCHANGED <<procRef, startedAt, audioPath>>

\* onStop after `await stopRecording(child)`: the handle is dropped and both
\* flags are cleared; the activation then sleeps 200 ms before validating.
ReleaseHandle ==
    /\ procRef' = NULL
    /\ isRecording' = FALSE
    /\ isStopping' = FALSE
    /\ UNCHANGED <<startedAt, audioPath>>

\* The activations inside stopRecording that are waiting on a timer.
Waiting == {r \in Runs : run[r].pc \in {"polite", "interrupt", "grace"}}

\* ------------------------------------------------------------------ onStart
\* The guard of onStart.
StartRefused == isRecording \/ isStopping

\* What startRecording can do: throw synchronously (mkdtempSync, or spawn on
\* an invalid argument), return a child that runs, or return a child whose
\* spawn failed (ENOENT, EACCES: Node reports these by an 'error' event on the
\* child, which has no listener here, and the child never emits 'close').
SpawnOutcomes == {"threw", "running", "failed"}

\* Start Recording (offered while !isRecording).  startRecording either throws
\* synchronously or returns the child and its wav path.
onStart ==
    /\ ~isRecording
    /\ nSessions < MaxSessions
    /\ IF StartRefused
       THEN UNCHANGED vars
       ELSE \E outcome \in SpawnOutcomes :
              LET s == nSessions + 1 IN
              /\ nSessions' = s
              /\ IF outcome # "threw"
                 THEN /\ proc' = [proc EXCEPT ![s] = outcome]
                      /\ procRef' = s
                      /\ audioPath' = s
                      /\ isRecording' = TRUE
                      /\ startedAt' = s
                      /\ UNCHANGED <<isStopping, log>>
                 ELSE /\ StartLogged(<<Entry("Failed to start ffmpeg", 0, <<>>)>>)
                      /\ UNCHANGED <<uiVars, proc>>
              /\ UNCHANGED <<prefs, timeouts, notion, file, unlinked, nRuns, run>>

\* ------------------------------------------------------- the ffmpeg process
\* ffmpeg creates the wav file (once) and then appends samples to it.
ProcessWrite(s) ==
    /\ proc[s] = "running"
    /\ unlinked[s] = 0
    /\ file[s] \in {"absent", "empty"}
    /\ file' = [file EXCEPT ![s] = IF file[s] = "absent" THEN "empty" ELSE "data"]
    /\ UNCHANGED <<uiVars, log, prefs, timeouts, notion, nSessions, proc, unlinked, nRuns, run>>

\* RaceWonByClose without the `if (!done)` guard of the interrupt tier.
RaceWonByCloseStillInterrupts(rec) ==
    [rec EXCEPT !.closedIn = rec.pc, !.pc = "settle", !.timer = 0,
                !.tiers = IF rec.pc = "polite" THEN Append(@, "SIGINT") ELSE @]

\* `closed` wins a race of stopRecording: done is true, so no further signal is
\* sent, no further wait is made, and the call returns.
RaceWonByClose(rec) ==
    [rec EXCEPT !.closedIn = rec.pc, !.pc = "settle", !.timer = 0]

\* The child's close event: the listener of onStart logs it, and every
\* stopRecording call racing on `closed` resumes with done = true, returns, and
\* its onStop continues up to the 200 ms sleep.
ProcessClose(s) ==
    LET woken == {r \in Runs : run[r].child = s /\ run[r].pc \in {"polite", "interrupt"}} IN
    /\ proc[s] \in {"running", "killed"}
    /\ proc' = [proc EXCEPT ![s] = "closed"]
    /\ ChildLogged(s, <<Entry("ffmpeg exited", s, <<>>)>>)
    /\ run' = [r \in Runs |-> IF r \in woken THEN RaceWonByClose(run[r]) ELSE run[r]]
    /\ IF woken # {} THEN ReleaseHandle ELSE UNCHANGED uiVars
    /\ UNCHANGED <<prefs, timeouts, notion, nSessions, file, unlinked, nRuns>>

\* 100 ms pass for every waiting stopRecording call.
Tick ==
    /\ Waiting # {}
    /\ \A r \in Waiting : run[r].timer > 0
    /\ run' = [r \in Runs |->
                 IF r \in Waiting
                 THEN [run[r] EXCEPT !.timer = @ - 1, !.elapsed = @ + 1]
                 ELSE run[r]]
    /\ UNCHANGED <<uiVars, log, prefs, timeouts, notion, nSessions, proc, file, unlinked, nRuns>>

\* ------------------------------------------------------------- stopRecording
\* Attempt without the catch: a send that throws rejects stopRecording, and
\* onStop's own catch resumes after the call.
AttemptUncaught(rec, tier, ok, pc, timer) ==
    IF ok
    THEN [rec EXCEPT !.tiers = Append(@, tier), !.pc = pc, !.timer = timer]
    ELSE [rec EXCEPT !.tiers = Append(@, tier), !.threw = tier, !.pc = "settle", !.timer = 0]

\* try { send } catch { ignore }: the tier has been attempted, and a send that
\* threw is remembered as the last one swallowed; the call goes on to `pc`.
Attempt(rec, tier, ok, pc, timer) ==
    [rec EXCEPT !.tiers = Append(@, tier),
                !.threw = IF ok THEN @ ELSE tier,
                !.pc = pc, !.timer = timer]

\* A guard of onStop that refuses nothing.
StopRefusedNever == FALSE

\* The guard of onStop.
StopRefused == ~isRecording \/ procRef = NULL

\* Stop Recording (the interface offers it while isRecording; the handler can
\* run in any state and its guard decides): onStop up to the first race of
\* stopRecording: 'q' is written to stdin, stdin is ended, the close listener is
\* registered and the polite timer is started.
onStop ==
    /\ nRuns < MaxStops
    /\ IF StopRefused
       THEN UNCHANGED vars
       ELSE \E ok \in BOOLEAN :
              LET r == nRuns + 1 IN
              /\ nRuns' = r
              /\ isStopping' = TRUE
              /\ SetRun(r, Attempt([IdleRun EXCEPT !.child = procRef, !.path = audioPath,
                                                    !.toast = "Animated"],
                                    "q", ok, "polite", timeouts.q))
              /\ UNCHANGED <<isRecording, startedAt, audioPath, procRef, log, prefs,
                             timeouts, notion, nSessions, proc, file, unlinked>>

\* The second wait, armed with the first one's length added to its own.
InterruptWaitCumulative == timeouts.q + timeouts.sigint + 1

\* The length of the second wait: delay(timeouts.sigint).
InterruptWait == timeouts.sigint

\* delay(timeouts.q) won the first race: done is false, SIGINT is sent and the
\* second race starts.
PoliteTimeout(r) ==
    /\ run[r].pc = "polite"
    /\ run[r].timer = 0
    /\ \E ok \in BOOLEAN :
         SetRun(r, Attempt(run[r], "SIGINT", ok, "interrupt", InterruptWait))
    /\ UNCHANGED <<uiVars, log, prefs, timeouts, notion, nSessions, proc, file, unlinked, nRuns>>

\* delay(timeouts.sigint) won the second race: SIGKILL is sent and the call
\* sleeps 200 ms.  A delivered SIGKILL ends a process that is still running.
InterruptTimeout(r) ==
    /\ run[r].pc = "interrupt"
    /\ run[r].timer = 0
    /\ \E ok \in BOOLEAN :
         /\ SetRun(r, Attempt(run[r], "SIGKILL", ok, "grace", GraceTicks))
         /\ proc' = IF ok /\ proc[run[r].child] = "running"
                    THEN [proc EXCEPT ![run[r].child] = "killed"]
                    ELSE proc
    /\ UNCHANGED <<uiVars, log, prefs, timeouts, notion, nSessions, file, unlinked, nRuns>>

\* The 200 ms after SIGKILL are over: stopRecording returns and onStop continues
\* up to its own 200 ms sleep.
GraceElapsed(r) ==
    /\ run[r].pc = "grace"
    /\ run[r].timer = 0
    /\ SetRun(r, [run[r] EXCEPT !.pc = "settle"])
    /\ ReleaseHandle
    /\ UNCHANGED <<log, prefs, timeouts, notion, nSessions, proc, file, unlinked, nRuns>>


\* ----------------------------------------------------------------- pipeline
\* !value?.trim()
Blank(s) == ~Truthy(s) \/ Trim(s) = <<>>

\* What existsSync / statSync show of the path the closure holds.
Observed(path) == IF path = NULL THEN "nopath" ELSE file[path]

\* CaptureValid without the size check.
CaptureValidAnySize(path) ==
    /\ path # NULL
    /\ file[path] # "absent"

\* onStop's check of the capture: the path its closure holds is set, the file
\* exists and its size is not zero.
CaptureValid(path) ==
    /\ path # NULL
    /\ file[path] # "absent"
    /\ file[path] # "empty"

\* The ways a fetch can fail before its timeout: a non-ok status or a network
\* error.  Each one makes the service function throw.  The AbortController's
\* timeout is a step of its own (TranscribeAborts, CleanAborts).
FetchFailures == {"status", "network"}

\* The frame of a stopRecording call that has returned is gone.
Returned(rec) ==
    [rec EXCEPT !.timer = 0, !.elapsed = 0, !.tiers = <<>>, !.threw = "none",
                !.closedIn = "none"]

\* onStop after its 200 ms sleep: the capture is validated, the API key is
\* checked and transcribeAudio is called, which starts by reading the file.
ValidateCapture(r) ==
    /\ run[r].pc = "settle"
    /\ \E openaiApiKey \in PrefChoices :
         LET rec == [Returned(run[r]) EXCEPT !.seen = Observed(run[r].path)] IN
         IF ~CaptureValid(rec.path)
         THEN /\ StopLogged(r, <<Entry("No audio file written", 0, <<>>)>>)
              /\ SetRun(r, Done(rec, "NoAudioCaptured", "Failure"))
              /\ UNCHANGED prefs
         ELSE IF Blank(openaiApiKey)
         THEN /\ Reads("openaiApiKey", openaiApiKey)
              /\ StopLogged(r, <<Entry("No OpenAI API key configured", 0, <<>>)>>)
              /\ SetRun(r, Done(rec, "NoApiKey", "Failure"))
         ELSE /\ Reads("openaiApiKey", openaiApiKey)
              /\ SetRun(r, [rec EXCEPT !.pc = "reading", !.toast = "Animated",
                                         !.calls = Append(@, "transcribe")])
              /\ UNCHANGED log
    /\ UNCHANGED <<uiVars, timeouts, notion, nSessions, proc, file, unlinked, nRuns>>

\* transcribeAudio: fsp.readFile(filePath) completes, and the request is sent,
\* or throws because the file is gone.  Nothing catches what transcribeAudio
\* throws: onStop ends there.
ReadAudio(r) ==
    /\ run[r].pc = "reading"
    /\ IF file[run[r].path] = "absent"
       THEN SetRun(r, Done(run[r], "TranscriptionFailed", "Animated"))
       ELSE SetRun(r, [run[r] EXCEPT !.pc = "fetching"])
    /\ UNCHANGED <<uiVars, log, prefs, timeouts, notion, nSessions, proc, file, unlinked, nRuns>>

\* TranscribeFails with the file removed whatever the outcome.
TranscribeFailsDeleting(r) ==
    /\ run[r].pc = "fetching"
    /\ SetRun(r, Done(run[r], "TranscriptionFailed", "Animated"))
    /\ file' = [file EXCEPT ![run[r].path] = "absent"]
    /\ unlinked' = unlinked
    /\ UNCHANGED <<uiVars, log, prefs, timeouts, notion, nSessions, proc, nRuns>>

\* transcribeAudio's fetch fails.
TranscribeFails(r) ==
    /\ run[r].pc = "fetching"
    /\ \E why \in FetchFailures : SetRun(r, Done(run[r], "TranscriptionFailed", "Animated"))
    /\ UNCHANGED <<uiVars, log, prefs, timeouts, notion, nSessions, proc, file, unlinked, nRuns>>

\* TranscribeAnswers going on to the cleanup request with no unlink in between.
TranscribeAnswersKeepingFile(r) ==
    /\ run[r].pc = "fetching"
    /\ \E text \in TextChoices :
         IF ~Truthy(text)
         THEN SetRun(r, Done(run[r], "EmptyTranscription", "Animated"))
         ELSE SetRun(r, [run[r] EXCEPT !.pc = "cleaning", !.text = text,
                                       !.calls = Append(@, "clean")])
    /\ UNCHANGED <<uiVars, log, prefs, timeouts, notion, nSessions, proc, file, unlinked, nRuns>>

\* transcribeAudio's fetch answers ok: without text it throws, with text it
\* returns it and transcribeAudioFile goes on to unlink the file.
TranscribeAnswers(r) ==
    /\ run[r].pc = "fetching"
    /\ \E text \in TextChoices :
         IF ~Truthy(text)
         THEN SetRun(r, Done(run[r], "EmptyTranscription", "Animated"))
         ELSE SetRun(r, [run[r] EXCEPT !.pc = "unlinking", !.text = text])
    /\ UNCHANGED <<uiVars, log, prefs, timeouts, notion, nSessions, proc, file, unlinked, nRuns>>

\* cleanTranscript returns "" without a request when the text is blank.
CleanShortCircuits(text) == Blank(text)

\* CleanResult trimming the text it falls back to.
CleanResultTrimmed(text, content) ==
    IF content = Undefined THEN Trim(text) ELSE Trim(content)

\* What cleanTranscript returns for an ok answer: the trimmed content, or the
\* text it was given when the answer has no content.
CleanResult(text, content) ==
    IF content = Undefined THEN text ELSE Trim(content)

\* transcribeAudioFile after transcribeAudio returned: unlink(audioPath) succeeds
\* (the file is gone, audioPath is cleared) or throws (only logged); the
\* transcript is logged and returned; cleanTranscribedText calls cleanTranscript,
\* which answers "" at once for a blank text and sends its request otherwise.
UnlinkAudio(r) ==
    LET rec == run[r]
        p == rec.path
        after == IF CleanShortCircuits(rec.text)
                 THEN Done([rec EXCEPT !.md = <<>>], "CleanEmpty", "Failure")
                 ELSE [rec EXCEPT !.pc = "cleaning", !.toast = "Animated",
                                  !.calls = Append(@, "clean")]
    IN
    /\ rec.pc = "unlinking"
    /\ \E ok \in BOOLEAN :
         /\ ok => file[p] # "absent"
         /\ IF ok
            THEN /\ file' = [file EXCEPT ![p] = "absent"]
                 /\ unlinked' = [unlinked EXCEPT ![p] = @ + 1]
                 /\ audioPath' = NULL
                 /\ StopLogged(r, <<Entry("Deleted audio file", p, <<>>),
                             Entry("Transcription", 0, rec.text)>>)
            ELSE /\ StopLogged(r, <<Entry("Failed to delete audio file", 0, <<>>),
                             Entry("Transcription", 0, rec.text)>>)
                 /\ UNCHANGED <<file, unlinked, audioPath>>
    /\ SetRun(r, after)
    /\ UNCHANGED <<isRecording, isStopping, startedAt, procRef, prefs, timeouts, notion,
                   nSessions, proc, nRuns>>

\* transcribeAudio's timer (90 s unless the caller passes another) fires while
\* the fetch or the reading of its body is in flight: the controller aborts the
\* call, which throws.
TranscribeAborts(r) ==
    /\ run[r].pc = "fetching"
    /\ SetRun(r, Done(run[r], "TranscriptionFailed", "Animated"))
    /\ UNCHANGED <<uiVars, log, prefs, timeouts, notion, nSessions, proc, file, unlinked, nRuns>>

\* CleanFails with the activation's log entries dropped.
CleanFailsDroppingLog(r) ==
    /\ run[r].pc = "cleaning"
    /\ SetRun(r, Done(run[r], "CleanupFailed", "Animated"))
    /\ log' = [log EXCEPT !.stop[r] = <<>>]
    /\ UNCHANGED <<uiVars, prefs, timeouts, notion, nSessions, proc, file, unlinked, nRuns>>

\* cleanTranscript's fetch fails: it throws and nothing catches it.
CleanFails(r) ==
    /\ run[r].pc = "cleaning"
    /\ \E why \in FetchFailures : SetRun(r, Done(run[r], "CleanupFailed", "Animated"))
    /\ UNCHANGED <<uiVars, log, prefs, timeouts, notion, nSessions, proc, file, unlinked, nRuns>>

\* A clean step whose timer never fires.
CleanAbortsNever(r) ==
    /\ FALSE
    /\ UNCHANGED vars

\* cleanTranscript's timer (60 s) fires while its fetch is in flight: the
\* controller aborts the call, which throws.
CleanAborts(r) ==
    /\ run[r].pc = "cleaning"
    /\ SetRun(r, Done(run[r], "CleanupFailed", "Animated"))
    /\ UNCHANGED <<uiVars, log, prefs, timeouts, notion, nSessions, proc, file, unlinked, nRuns>>

\* PublishConfigured looking at the token only.
PublishConfiguredTokenOnly(notionToken, notionDatabaseId) == ~Blank(notionToken)

\* onStop's check before createNotionPage: both Notion preferences are set.
PublishConfigured(notionToken, notionDatabaseId) ==
    ~Blank(notionToken) /\ ~Blank(notionDatabaseId)

\* onStop reads both Notion preferences in one condition.
ReadsNotion(token, databaseId) ==
    /\ prefs.notionToken \in {Unread, token}
    /\ prefs.notionDatabaseId \in {Unread, databaseId}
    /\ prefs' = [prefs EXCEPT !.notionToken = token, !.notionDatabaseId = databaseId]

\* cleanTranscript's fetch answers ok.  An empty result ends onStop; otherwise
\* it is logged, the Notion preferences are checked and the page request is sent.
CleanAnswers(r) ==
    /\ run[r].pc = "cleaning"
    /\ \E content \in ContentChoices, notionToken \in PrefChoices, notionDatabaseId \in PrefChoices :
         LET md == CleanResult(run[r].text, content)
             rec == [run[r] EXCEPT !.content = content, !.md = md]
         IN
         IF ~Truthy(md)
         THEN /\ SetRun(r, Done(rec, "CleanEmpty", "Failure"))
              /\ UNCHANGED <<log, prefs>>
         ELSE IF ~PublishConfigured(notionToken, notionDatabaseId)
         THEN /\ ReadsNotion(notionToken, notionDatabaseId)
              /\ StopLogged(r, <<Entry("Cleaned Transcript", 0, md),
                          Entry("No Notion token or database ID configured", 0, <<>>)>>)
              /\ SetRun(r, Done(rec, "PublishNotConfigured", "Failure"))
         ELSE /\ ReadsNotion(notionToken, notionDatabaseId)
              /\ StopLogged(r, <<Entry("Cleaned Transcript", 0, md)>>)
              /\ SetRun(r, [rec EXCEPT !.pc = "publishing", !.toast = "Animated",
                                        !.calls = Append(@, "publish")])
    /\ UNCHANGED <<uiVars, timeouts, notion, nSessions, proc, file, unlinked, nRuns>>

\* createNotionPageFromMarkdown throws: nothing catches it.
PublishFails(r) ==
    /\ run[r].pc = "publishing"
    /\ SetRun(r, Done(run[r], "PublishFailed", "Animated"))
    /\ UNCHANGED <<uiVars, log, prefs, timeouts, notion, nSessions, proc, file, unlinked, nRuns>>

\* The Notion client gives up on a request: notion.ts builds it with the auth
\* token only, so the time limit is the client's own default, and the rejected
\* request makes createNotionPageFromMarkdown throw.
PublishTimesOut(r) ==
    /\ run[r].pc = "publishing"
    /\ SetRun(r, Done(run[r], "PublishFailed", "Animated"))
    /\ UNCHANGED <<uiVars, log, prefs, timeouts, notion, nSessions, proc, file, unlinked, nRuns>>

\* createNotionPageFromMarkdown returns the created page.
PublishAnswers(r) ==
    /\ run[r].pc = "publishing"
    /\ StopLogged(r, <<Entry("Notion page created", 0, <<>>)>>)
    /\ SetRun(r, Done(run[r], "Succeeded", "Success"))
    /\ UNCHANGED <<uiVars, prefs, timeouts, notion, nSessions, proc, file, unlinked, nRuns>>

\* ------------------------------------------- createNotionPageFromMarkdown
\* The variables of the recorder and its pipeline.
recorderVars == <<isRecording, isStopping, startedAt, audioPath, procRef, log, prefs,
                  timeouts, nSessions, proc, file, unlinked, nRuns, run>>

\* A line of markdown: an ATX heading "# text" or "## text", a line of plain
\* text, a blank line, or a line "---".
MdLine(kind, text) == [kind |-> kind, text |-> text]

MdLines ==
    {MdLine("h1", <<"a">>), MdLine("h1", <<>>), MdLine("h2", <<"a">>),
     MdLine("text", <<"b">>), MdLine("blank", <<>>), MdLine("rule", <<>>)}

\* The markdown strings given to the call, as sequences of lines.
Markdowns == UNION {[1..n -> MdLines] : n \in 0..MaxLines}

\* The values of the optional explicitTitle parameter.
ExplicitTitles == {Undefined, <<>>, <<" ">>, <<" ", "t">>}

\* The title used when nothing else gives one.
NewNote == <<"N", "e", "w", " ", "N", "o", "t", "e">>

\* A token of marked's lexer.
Token(type, depth, text) == [type |-> type, depth |-> depth, text |-> text]

\* The paragraph the lexer has open, if any.
Flush(para) == IF para = <<>> THEN <<>> ELSE <<Token("paragraph", 0, para)>>

\* marked.lexer on these lines: an ATX heading closes the open paragraph and
\* gives a heading token; consecutive text lines form one paragraph; "---"
\* right under a paragraph turns it into a depth-2 (setext) heading and is an
\* hr token otherwise; blank lines close the paragraph and give a space token.
RECURSIVE Lexer(_, _)
Lexer(lines, para) ==
    IF lines = <<>> THEN Flush(para)
    ELSE LET l == Head(lines)
             rest == Tail(lines)
         IN
         CASE l.kind = "text" ->
                Lexer(rest, IF para = <<>> THEN l.text ELSE para \o <<"\n">> \o l.text)
           [] l.kind = "rule" ->
                (IF para = <<>> THEN <<Token("hr", 0, <<>>)>>
                                ELSE <<Token("heading", 2, para)>>) \o Lexer(rest, <<>>)
           [] l.kind = "blank" ->
                Flush(para) \o <<Token("space", 0, <<>>)>> \o Lexer(rest, <<>>)
           [] l.kind = "h1" ->
                Flush(para) \o <<Token("heading", 1, l.text)>> \o Lexer(rest, <<>>)
           [] l.kind = "h2" ->
                Flush(para) \o <<Token("heading", 2, l.text)>> \o Lexer(rest, <<>>)

\* A Notion block with one rich-text item of type "text".
Block(type, content) == [type |-> type, content |-> content]

\* The loop of markdownToNotionBlocks: headings and paragraphs become blocks,
\* space tokens and unsupported tokens (hr) are skipped.
RECURSIVE BlocksOf(_)
BlocksOf(tokens) ==
    IF tokens = <<>> THEN <<>>
    ELSE LET token == Head(tokens) IN
         (CASE token.type = "heading" ->
                 <<Block(IF token.depth = 1 THEN "heading_1"
                         ELSE IF token.depth = 2 THEN "heading_2" ELSE "heading_3",
                         token.text)>>
            [] token.type = "paragraph" -> <<Block("paragraph", token.text)>>
            [] OTHER -> <<>>)
         \o BlocksOf(Tail(tokens))

markdownToNotionBlocks(markdown) == BlocksOf(Lexer(markdown, <<>>))

\* !markdown?.trim(): the string has nothing but whitespace.
MarkdownBlank(markdown) == \A i \in DOMAIN markdown : markdown[i].kind = "blank"

\* The first block is a heading_1 (its rich text is always of type "text").
FirstIsH1(blocks) == blocks # <<>> /\ blocks[1].type = "heading_1"

\* let derivedTitle = explicitTitle?.trim() || "New Note", then replaced by the
\* content of a first heading_1 unless that content is empty.
DerivedTitle(blocks, explicitTitle) ==
    LET derivedTitle == IF explicitTitle # Undefined /\ Trim(explicitTitle) # <<>>
                        THEN Trim(explicitTitle) ELSE NewNote
    IN IF FirstIsH1(blocks) /\ blocks[1].content # <<>>
       THEN blocks[1].content
       ELSE derivedTitle

\* Children without the blocks.shift().
ChildrenKeepingHeading(blocks) == blocks

\* blocks.shift() when the first block is a heading_1.
Children(blocks) == IF FirstIsH1(blocks) THEN Tail(blocks) ELSE blocks

\* The call: the argument checks, the blocks, the title, and the request for
\* the database is sent; or it throws before any request.
NotionCall ==
    /\ notion.pc = "idle"
    /\ \E notionToken \in PrefChoices, databaseId \in PrefChoices,
          markdown \in Markdowns, explicitTitle \in ExplicitTitles :
         LET frame == [notion EXCEPT !.markdown = markdown, !.explicitTitle = explicitTitle]
             blocks == markdownToNotionBlocks(markdown)
         IN
         IF notionToken = <<>> \/ databaseId = <<>> \/ MarkdownBlank(markdown)
         THEN notion' = [frame EXCEPT !.pc = "threw"]
         ELSE IF blocks = <<>>
         THEN notion' = [frame EXCEPT !.pc = "threw"]
         ELSE notion' = [frame EXCEPT !.pc = "retrieving", !.blocks = blocks,
                                      !.title = DerivedTitle(blocks, explicitTitle),
                                      !.children = Children(blocks),
                                      !.requests = <<"retrieve">>]
    /\ UNCHANGED recorderVars

\* notion.databases.retrieve rejects.
NotionRetrieveFails ==
    /\ notion.pc = "retrieving"
    /\ notion' = [notion EXCEPT !.pc = "threw"]
    /\ UNCHANGED recorderVars

\* notion.databases.retrieve answers: pages.create is sent with the title and
\* the children.
NotionRetrieveAnswers ==
    /\ notion.pc = "retrieving"
    /\ notion' = [notion EXCEPT !.pc = "creating", !.requests = Append(@, "create")]
    /\ UNCHANGED recorderVars

\* notion.pages.create rejects.
NotionCreateFails ==
    /\ notion.pc = "creating"
    /\ notion' = [notion EXCEPT !.pc = "threw"]
    /\ UNCHANGED recorderVars

\* notion.pages.create answers: the call returns the page with derivedTitle.
NotionCreateAnswers ==
    /\ notion.pc = "creating"
    /\ notion' = [notion EXCEPT !.pc = "returned", !.returned = notion.title]
    /\ UNCHANGED recorderVars

\* ------------------------------------------------------------ specification
Next ==
    \/ onStart
    \/ onStop
    \/ Tick
    \/ \E s \in Sessions : ProcessWrite(s)
    \/ \E s \in Sessions : ProcessClose(s)
    \/ \E r \in Runs : PoliteTimeout(r)
    \/ \E r \in Runs : InterruptTimeout(r)
    \/ \E r \in Runs : GraceElapsed(r)
    \/ \E r \in Runs : ValidateCapture(r)
    \/ \E r \in Runs : ReadAudio(r)
    \/ \E r \in Runs : TranscribeFails(r)
    \/ \E r \in Runs : TranscribeAborts(r)
    \/ \E r \in Runs : TranscribeAnswers(r)
    \/ \E r \in Runs : UnlinkAudio(r)
    \/ \E r \in Runs : CleanFails(r)
    \/ \E r \in Runs : CleanAborts(r)
    \/ \E r \in Runs : CleanAnswers(r)
    \/ \E r \in Runs : PublishFails(r)
    \/ \E r \in Runs : PublishTimesOut(r)
    \/ \E r \in Runs : PublishAnswers(r)

Spec == Init /\ [][Next]_vars

\* The steps of activation r that need no one's cooperation: a timer that is
\* due fires, a local file operation completes.
Due(r) ==
    \/ PoliteTimeout(r)
    \/ InterruptTimeout(r)
    \/ GraceElapsed(r)
    \/ ValidateCapture(r)
    \/ ReadAudio(r)
    \/ TranscribeAborts(r)
    \/ UnlinkAudio(r)
    \/ CleanAborts(r)
    \/ PublishTimesOut(r)

\* The event loop does not stall: while the clock can advance or some step is
\* due, one of them eventually happens.  What the recorder process and the
\* remote services do (close, write, answer, fail) is left unforced, as is what
\* the user does (Start, Stop).
Fairness == WF_vars(Tick \/ \E r \in Runs : Due(r))

\* Next with the recordings limited to MaxLiveSessions: every step of Next, and
\* Start only while that many recordings have not been made.
FairNext ==
    \/ onStart /\ nSessions < MaxLiveSessions
    \/ onStop
    \/ Tick
    \/ \E s \in Sessions : ProcessWrite(s)
    \/ \E s \in Sessions : ProcessClose(s)
    \/ \E r \in Runs : PoliteTimeout(r)
    \/ \E r \in Runs : InterruptTimeout(r)
    \/ \E r \in Runs : GraceElapsed(r)
    \/ \E r \in Runs : ValidateCapture(r)
    \/ \E r \in Runs : ReadAudio(r)
    \/ \E r \in Runs : TranscribeFails(r)
    \/ \E r \in Runs : TranscribeAborts(r)
    \/ \E r \in Runs : TranscribeAnswers(r)
    \/ \E r \in Runs : UnlinkAudio(r)
    \/ \E r \in Runs : CleanFails(r)
    \/ \E r \in Runs : CleanAborts(r)
    \/ \E r \in Runs : CleanAnswers(r)
    \/ \E r \in Runs : PublishFails(r)
    \/ \E r \in Runs : PublishTimesOut(r)
    \/ \E r \in Runs : PublishAnswers(r)

FairSpec == Init /\ [][FairNext]_vars /\ Fairness

\* One call of createNotionPageFromMarkdown on any arguments.
PublishNext ==
    \/ NotionCall
    \/ NotionRetrieveFails
    \/ NotionRetrieveAnswers
    \/ NotionCreateFails
    \/ NotionCreateAnswers

PublishSpec == Init /\ [][PublishNext]_vars


\* ------------------------------------------------------------------- claims
AllTiers == <<"q", "SIGINT", "SIGKILL">>

\* The activations whose stopRecording frame is visible: waiting, or returned
\* and not yet past onStop's 200 ms sleep.
InStop == {r \in Runs : run[r].pc \in {"polite", "interrupt", "grace", "settle"}}

\* C1: stopRecording escalates in the order 'q' -> SIGINT -> SIGKILL, and a later
\* tier is attempted only after the previous wait ran out with no close event:
\* a close during the polite wait means no SIGINT and no SIGKILL, a close during
\* the interrupt wait means no SIGKILL and no grace delay.
C1_EscalationOrder ==
    \A r \in InStop :
      LET rec == run[r] IN
      /\ rec.tiers = SubSeq(AllTiers, 1, Len(rec.tiers))
      /\ Len(rec.tiers) >= 1
      /\ Len(rec.tiers) >= 2 => rec.closedIn # "polite" /\ rec.elapsed >= timeouts.q
      /\ Len(rec.tiers) = 3 =>
           rec.closedIn = "none" /\ rec.elapsed >= timeouts.q + timeouts.sigint
      /\ rec.closedIn = "polite" => rec.tiers = <<"q">> /\ rec.elapsed <= timeouts.q
      /\ rec.closedIn = "interrupt" =>
           rec.tiers = <<"q", "SIGINT">> /\ rec.elapsed <= timeouts.q + timeouts.sigint
      /\ rec.pc = "grace" => rec.tiers = AllTiers

\* Two stopRecording calls on one child have returned on its close event, one
\* from its polite wait and one from its interrupt wait.
C1_Witness ==
    \E r1, r2 \in Runs :
      /\ run[r1].pc = "settle" /\ run[r1].closedIn = "polite" /\ run[r1].tiers = <<"q">>
      /\ run[r2].pc = "settle" /\ run[r2].closedIn = "interrupt"
      /\ run[r2].tiers = <<"q", "SIGINT">>

\* C2: for all politeMs, interruptMs >= 0 and whatever the process does,
\* stopRecording returns within politeMs + interruptMs + graceMs, and when it
\* returns it has seen the close event or has gone through all three tiers.
C2_StopBounded ==
    \A r \in InStop :
      LET rec == run[r]
          limit == timeouts.q + timeouts.sigint + GraceTicks
      IN
      /\ rec.elapsed <= limit
      /\ (rec.pc # "settle" /\ rec.elapsed = limit) => rec.timer = 0
      /\ rec.pc = "settle" => rec.closedIn # "none" \/ rec.tiers = AllTiers

\* A call with both timeouts positive returned after the full escalation, on a
\* child that had exited before Stop and so never showed its close event.
C2_Witness ==
    \E r \in Runs :
      /\ run[r].pc = "settle"
      /\ run[r].closedIn = "none"
      /\ run[r].tiers = AllTiers
      /\ timeouts.q > 0 /\ timeouts.sigint > 0
      /\ run[r].elapsed = timeouts.q + timeouts.sigint + GraceTicks
      /\ proc[run[r].child] = "closed"

\* The position a stopRecording frame is in when nothing has cut it short.
OnCourse(rec) ==
    \/ rec.pc = "polite" /\ rec.tiers = <<"q">>
    \/ rec.pc = "interrupt" /\ rec.tiers = <<"q", "SIGINT">>
    \/ rec.pc = "grace" /\ rec.tiers = AllTiers
    \/ rec.pc = "settle" /\ (rec.closedIn # "none" \/ rec.tiers = AllTiers)

\* C3: Stop never throws: a failed write of the quit token or a failed SIGINT or
\* SIGKILL is swallowed, the remaining shutdown steps still run, and the
\* activation is not ended by it: it goes on to validate the capture.
C3_SendFailuresSwallowed ==
    \A r \in Runs :
      run[r].threw # "none" =>
        /\ OnCourse(run[r])
        /\ run[r].result = "none"
        /\ run[r].pc = "settle" => ENABLED ValidateCapture(r)

\* The write of 'q' threw and so did SIGKILL; the call still went through every
\* tier and onStop is about to validate the capture.
C3_Witness ==
    \E r1, r2 \in Runs :
      /\ run[r1].pc = "settle" /\ run[r1].threw = "q" /\ run[r1].closedIn # "none"
      /\ run[r2].pc = "settle" /\ run[r2].threw = "SIGKILL" /\ run[r2].tiers = AllTiers


\* The activations of one recording.
SameRecording(r1, r2) == r1 # r2 /\ run[r1].child # NULL /\ run[r1].child = run[r2].child

\* A post-recording stage of the activation is in progress.
InStage(r) == run[r].pc \in {"reading", "fetching", "unlinking", "cleaning", "publishing"}

\* The activation ended at a stage that failed.
Failed(r) == run[r].pc = "done" /\ run[r].result # "Succeeded"

\* Every activation calls the collaborators in the pipeline's order.
CallsInOrder ==
    \A r \in Runs :
      run[r].calls = SubSeq(<<"transcribe", "clean", "publish">>, 1, Len(run[r].calls))

\* No two stages of one recording are in progress together.
OneStageAtATime ==
    \A r1, r2 \in Runs : SameRecording(r1, r2) => ~(InStage(r1) /\ InStage(r2))

\* Once a stage of a recording has failed, no collaborator is called for it.
NoCallAfterFailure ==
    \A r1, r2 \in Runs :
      SameRecording(r1, r2) /\ Failed(r1) => run'[r2].calls = run[r2].calls

\* C4: within one session the stages run in the order ValidateCapture ->
\* Transcribe -> Clean -> Publish, no two of them are in progress at the same
\* time, and after a stage has failed no later collaborator call is started for
\* that session.
C4_SequentialAndHalting ==
    /\ []CallsInOrder
    /\ []OneStageAtATime
    /\ [][NoCallAfterFailure]_vars

\* C5: ValidateCapture fails with NoAudioCaptured exactly when audioPath is
\* unset, the file does not exist or its size is zero, and succeeds for an
\* existing file of size > 0; an activation that failed there has made no
\* transcription, cleanup or publishing call.
C5_ValidateCapture ==
    \A r \in Runs :
      /\ run[r].seen # "none" =>
           (run[r].result = "NoAudioCaptured" <=> run[r].seen \in {"nopath", "absent", "empty"})
      /\ run[r].result = "NoAudioCaptured" =>
           run[r].pc = "done" /\ run[r].calls = <<>> /\ run[r].toast = "Failure"

\* One activation failed on a zero-byte file without calling anything, another
\* passed validation on a file with data and has called the transcription.
C5_Witness ==
    \E r1, r2 \in Runs :
      /\ run[r1].result = "NoAudioCaptured" /\ run[r1].seen = "empty" /\ run[r1].calls = <<>>
      /\ run[r2].seen = "data" /\ run[r2].calls = <<"transcribe">>

\* The activation's part of the log has an entry of this kind.
Logged(r, kind) == \E i \in 1..Len(log.stop[r]) : log.stop[r][i].kind = kind

\* The activation's transcription returned a text / ended without one.
Transcribed(r) == Truthy(run[r].text) /\ run[r].pc # "unlinking"
TranscribeFailed(r) == run[r].result \in {"TranscriptionFailed", "EmptyTranscription"}

DeletionFollowsTranscription ==
    /\ \A s \in Sessions :
         /\ unlinked[s] <= 1
         /\ unlinked[s] = 1 =>
              \E r \in Runs : /\ run[r].path = s /\ Transcribed(r)
                              /\ Logged(r, "Deleted audio file")
    /\ \A r \in Runs :
         /\ Logged(r, "Deleted audio file") =>
              file[run[r].path] = "absent" /\ audioPath # run[r].path
         /\ Logged(r, "Failed to delete audio file") /\ unlinked[run[r].path] = 0 =>
              file[run[r].path] # "absent"
         /\ TranscribeFailed(r) =>
              /\ ~Logged(r, "Deleted audio file")
              /\ unlinked[run[r].path] = 0 => file[run[r].path] # "absent"

\* A step in which a transcription fails, or a deletion fails, leaves the file
\* and audioPath as they were.
FailureKeepsFile ==
    \A r \in Runs :
      \/ run[r].pc \in {"reading", "fetching"} /\ run'[r].pc = "done"
      \/ ~Logged(r, "Failed to delete audio file") /\ Logged(r, "Failed to delete audio file")'
      => UNCHANGED <<file, unlinked, audioPath>>

StillReading(s) == \E r \in Runs : run[r].path = s /\ run[r].pc = "reading"

DeletionAttemptedBeforeClean ==
    \A r \in Runs :
      run[r].pc = "cleaning" =>
        /\ Truthy(run[r].text)
        /\ Logged(r, "Deleted audio file") # Logged(r, "Failed to delete audio file")
        /\ Logged(r, "Deleted audio file") => file[run[r].path] = "absent"

\* The file is deleted only by an activation that is past its own
\* transcription call.
DeletedAfterOwnTranscription ==
    \A s \in Sessions :
      file[s] # "absent" /\ file'[s] = "absent" =>
        \E r \in Runs : /\ run[r].path = s /\ run[r].pc = "unlinking"
                        /\ run'[r].pc # "unlinking" /\ Truthy(run[r].text)

UndeletedCapture ==
    \E s \in Sessions :
      /\ unlinked[s] = 0
      /\ proc[s] = "running" \/ (isRecording /\ procRef = s) \/ file[s] # "absent"

\* C8: audioPath is non-null if and only if a capture subprocess has produced
\* or is producing a file that has not yet been deleted.
C8_AudioPathIffCapture == (audioPath # NULL) <=> UndeletedCapture

\* The text reached Clean and is made of whitespace only.
CleanGivenBlank(r) ==
    /\ Truthy(run[r].text) /\ Blank(run[r].text)
    /\ run[r].pc \notin {"fetching", "unlinking"}

\* C9: Clean on a blank transcript is a no-op, not a failure: no cleanup
\* request is sent, the result is the empty string, and the session is not
\* treated as failed at the Clean stage.
C9_CleanBlankIsNoOp ==
    \A r \in Runs :
      CleanGivenBlank(r) =>
        /\ run[r].calls = <<"transcribe">>
        /\ run[r].md = <<>>
        /\ run[r].result # "CleanEmpty" /\ run[r].toast # "Failure"

\* The cleanup answered ok without content.
ContentOmitted(r) == run[r].content = Undefined

\* The activation went on to Publish with this text: it logged it as the
\* cleaned transcript and reached onStop's Notion steps.
AdvancedToPublish(r, text) ==
    /\ \E i \in 1..Len(log.stop[r]) : log.stop[r][i] = Entry("Cleaned Transcript", 0, text)
    /\ \/ run[r].pc = "publishing" /\ run[r].calls = <<"transcribe", "clean", "publish">>
       \/ run[r].result \in {"PublishNotConfigured", "PublishFailed", "Succeeded"}

\* C10: when the cleanup answers ok with no content, Clean returns the
\* transcript it was given, unmodified, and the pipeline advances to Publish with
\* that text.
C10_MissingContentPassthrough ==
    \A r \in Runs :
      ContentOmitted(r) =>
        /\ run[r].md = run[r].text
        /\ run[r].result # "CleanEmpty"
        /\ AdvancedToPublish(r, run[r].text)

\* The page request of an activation is in flight with a transcript that has
\* leading whitespace, passed through untrimmed from an answer without content.
C10_Witness ==
    \E r \in Runs :
      /\ ContentOmitted(r) /\ run[r].pc = "publishing"
      /\ run[r].text = <<" ", "a">> /\ run[r].md = <<" ", "a">>

\* The activation's part of the log holds the transcript it obtained.
TranscriptLogged(r) ==
    \E i \in 1..Len(log.stop[r]) : log.stop[r][i] = Entry("Transcription", 0, run[r].text)

\* An activation whose Clean failed has ended there, after the cleanup call and
\* before any publishing call, with its transcript in the log.
CleanupFailedKeepsTranscript ==
    \A r \in Runs :
      run[r].result = "CleanupFailed" =>
        /\ run[r].pc = "done" /\ run[r].calls = <<"transcribe", "clean">>
        /\ Truthy(run[r].text) /\ TranscriptLogged(r)

\* No step removes or rewrites what an activation has logged.
StopLogOnlyGrows ==
    \A r \in Runs :
      /\ Len(log'.stop[r]) >= Len(log.stop[r])
      /\ SubSeq(log'.stop[r], 1, Len(log.stop[r])) = log.stop[r]

\* C11: when Clean fails the session ends as CleanupFailed and the transcript
\* obtained by Transcribe is still in the log after the failure, and is never
\* removed or overwritten.
C11_TranscriptSurvivesCleanFailure ==
    /\ []CleanupFailedKeepsTranscript
    /\ [][StopLogOnlyGrows]_vars

\* An activation ended as CleanupFailed and its non-blank transcript is in the
\* log.
C11_Witness ==
    \E r \in Runs :
      /\ run[r].result = "CleanupFailed" /\ run[r].text = <<" ", "a">>
      /\ TranscriptLogged(r)

\* The activation got a non-empty cleaned text, so onStop came to its check of
\* the Notion preferences.
CleanReturned(r) == Truthy(run[r].md) /\ run[r].pc # "cleaning"

\* C12: Publish is attempted only if both the Notion token and the database id
\* are configured; if either is blank the session ends as PublishNotConfigured,
\* the failure is logged, and the Publishing collaborator is not called.
C12_PublishOnlyWhenConfigured ==
    \A r \in Runs :
      /\ CleanReturned(r) =>
           (run[r].result = "PublishNotConfigured"
              <=> Blank(prefs.notionToken) \/ Blank(prefs.notionDatabaseId))
      /\ run[r].result = "PublishNotConfigured" =>
           /\ run[r].pc = "done" /\ run[r].calls = <<"transcribe", "clean">>
           /\ Logged(r, "No Notion token or database ID configured")
      /\ (\E i \in 1..Len(run[r].calls) : run[r].calls[i] = "publish") =>
           ~Blank(prefs.notionToken) /\ ~Blank(prefs.notionDatabaseId)

\* With the token set and the database id blank an activation ended as
\* PublishNotConfigured after Clean, without a publishing call.
C12_Witness ==
    \E r \in Runs :
      /\ run[r].result = "PublishNotConfigured" /\ run[r].calls = <<"transcribe", "clean">>
      /\ prefs.notionToken = <<"a">> /\ prefs.notionDatabaseId = <<>>

\* The call got past its argument checks: the title and the children are set.
NotionPrepared == notion.pc \in {"retrieving", "creating", "returned"}

\* A non-blank explicit title was passed.
ExplicitGiven == notion.explicitTitle # Undefined /\ Trim(notion.explicitTitle) # <<>>

\* C13: the precedence of the page title is explicit title > first top-level
\* heading > 'New Note': with a non-blank explicit title the title created and
\* returned is that title, for every document; the first heading is used only
\* when no explicit title is given.
C13_TitlePrecedence ==
    NotionPrepared =>
      /\ ExplicitGiven => notion.title \in {notion.explicitTitle, Trim(notion.explicitTitle)}
      /\ ~ExplicitGiven /\ FirstIsH1(notion.blocks) /\ notion.blocks[1].content # <<>> =>
           notion.title = notion.blocks[1].content
      /\ ~ExplicitGiven /\ ~FirstIsH1(notion.blocks) => notion.title = NewNote
      /\ notion.pc = "returned" => notion.returned = notion.title

\* C14 as stated: with no explicit title and a first block that is a top-level
\* heading, the title is that heading's text and the children are the other
\* blocks in their order.
C14_HeadingBecomesTitle ==
    NotionPrepared /\ notion.explicitTitle = Undefined /\ FirstIsH1(notion.blocks) =>
      /\ notion.title = notion.blocks[1].content
      /\ notion.children = Tail(notion.blocks)

\* C14 (amended): with no explicit title and a first block that is a top-level
\* heading, the children are the other blocks in their order, and the title is
\* the heading's text when that is not empty and 'New Note' when it is.
C14_HeadingBecomesTitleUnlessEmpty ==
    NotionPrepared /\ notion.explicitTitle = Undefined /\ FirstIsH1(notion.blocks) =>
      /\ notion.children = Tail(notion.blocks)
      /\ notion.title = IF notion.blocks[1].content # <<>>
                        THEN notion.blocks[1].content ELSE NewNote
      /\ \A i \in DOMAIN notion.children : notion.children[i] = notion.blocks[i + 1]

\* The call returned for "# a" followed by two lines of text: the title is "a"
\* and the one child is the paragraph.
C14_Witness ==
    /\ notion.pc = "returned" /\ notion.explicitTitle = Undefined
    /\ notion.markdown = <<MdLine("h1", <<"a">>), MdLine("text", <<"b">>), MdLine("text", <<"b">>)>>
    /\ notion.returned = <<"a">>
    /\ notion.children = <<Block("paragraph", <<"b", "\n", "b">>)>>
    /\ notion.requests = <<"retrieve", "create">>

\* The activations that ran for the recording of session s.
ActivationsOf(s) == {r \in Runs : run[r].child = s}

\* The activation has called this collaborator.
Called(r, collaborator) ==
    \E i \in 1..Len(run[r].calls) : run[r].calls[i] = collaborator

\* C15: the system is single-shot: for every interleaving of Start, Stop
\* (also a Stop invoked while a previous Stop is still waiting), process exits
\* and timers, each of the transcription, cleanup and publishing collaborators
\* is called at most once for a recording session, and the session produces at
\* most one published document.
C15_SingleShot ==
    \A s \in Sessions :
      /\ \A collaborator \in {"transcribe", "clean", "publish"} :
           Cardinality({r \in ActivationsOf(s) : Called(r, collaborator)}) <= 1
      /\ Cardinality({r \in ActivationsOf(s) : run[r].result = "Succeeded"}) <= 1

\* The log entries that mark the four stages of a successful run.  The code
\* reports a passed validation by a toast only ("Recording saved"), so no
\* entry of that kind is ever written.
StageMarkers == <<"Recording saved", "Transcription", "Cleaned Transcript", "Notion page created">>

\* The activation's log has the four stage markers in the pipeline's order.
AllMarkersInOrder(r) ==
    \E i1, i2, i3, i4 \in 1..Len(log.stop[r]) :
      /\ i1 < i2 /\ i2 < i3 /\ i3 < i4
      /\ log.stop[r][i1].kind = StageMarkers[1] /\ log.stop[r][i2].kind = StageMarkers[2]
      /\ log.stop[r][i3].kind = StageMarkers[3] /\ log.stop[r][i4].kind = StageMarkers[4]

\* The failure kinds of a session.
FailureKinds ==
    {"NoAudioCaptured", "EmptyTranscription", "TranscriptionFailed", "CleanupFailed",
     "PublishNotConfigured", "PublishFailed"}

\* The step in which an activation ends with a failure appends to its log.
FailureIsLogged ==
    \A r \in Runs :
      run[r].pc # "done" /\ run'[r].pc = "done" /\ run'[r].result \in FailureKinds =>
        Len(log'.stop[r]) > Len(log.stop[r])

\* C16: every stage transition and every failure is appended to the log: a
\* run that succeeded has the markers of validate, transcribe, clean and publish
\* in that order, and an activation that ends with any of the failure kinds
\* has logged an entry for it.
C16_StagesAndFailuresLogged ==
    /\ [](\A r \in Runs : run[r].result = "Succeeded" => AllMarkersInOrder(r))
    /\ [][FailureIsLogged]_vars

\* Every part of the log keeps what it had as a prefix.
LogAppendOnly ==
    /\ SubSeq(log'.start, 1, Len(log.start)) = log.start
    /\ \A s \in Sessions : SubSeq(log'.child[s], 1, Len(log.child[s])) = log.child[s]
    /\ StopLogOnlyGrows

\* Every earlier session has finished: each of its activations has ended.
EarlierSessionsFinished ==
    /\ nSessions >= 1
    /\ \E r \in Runs : run[r].child = nSessions
    /\ \A r \in Runs : run[r].pc \in {"idle", "done"}

\* A Start that begins a new session after a finished one leaves no entry of
\* the earlier sessions in the log.
StartClearsLog ==
    nSessions' = nSessions + 1 /\ isRecording' /\ EarlierSessionsFinished =>
      /\ \A s \in 1..nSessions : log'.child[s] = <<>>
      /\ \A r \in Runs : log'.stop[r] = <<>>

\* C17: the log is append-only within a session, and cleared when a new
\* session begins: after a Start that follows a finished session the log holds
\* no entries of the previous session.
C17_LogAppendOnlyAndCleared ==
    /\ [][LogAppendOnly]_vars
    /\ [][StartClearsLog]_vars

\* A Start whose capture process could not be spawned: startRecording threw, or
\* the child it returned failed to spawn.
SpawnFailed == nSessions' = nSessions + 1 /\ proc'[nSessions'] # "running"

\* C18: when the capture subprocess cannot be spawned, Start leaves the session
\* idle: isRecording stays false, no process handle is held, audioPath and
\* startedAt are unchanged, and only a failure entry is added to the log.
C18_SpawnFailureLeavesIdle ==
    [][SpawnFailed =>
         /\ ~isRecording' /\ procRef' = NULL
         /\ UNCHANGED <<audioPath, startedAt>>
         /\ log' = [log EXCEPT !.start = Append(@, Entry("Failed to start ffmpeg", 0, <<>>))]]_vars

\* The capture processes that have not exited: running, or sent SIGKILL and
\* not closed yet.
ActiveCaptures == {s \in Sessions : proc[s] \in {"running", "killed"}}

\* While a recording is active or stopping no process is spawned.
NoSpawnWhileRecording ==
    isRecording \/ isStopping => nSessions' = nSessions /\ proc' \in {proc} \cup
      {[proc EXCEPT ![s] = v] : s \in Sessions, v \in {"killed", "closed"}}

\* C19: at most one capture subprocess is active at any time, for every
\* sequence of Start and Stop commands; while a recording is active or
\* stopping, no second subprocess is spawned.
C19_OneCaptureAtATime ==
    /\ [](Cardinality(ActiveCaptures) <= 1)
    /\ [][NoSpawnWhileRecording]_vars

\* The handle is held exactly while isRecording is set, so onStop's guard never
\* refuses a Stop the interface offers.
HandleIffRecording ==
    /\ (procRef # NULL) <=> isRecording
    /\ isStopping => isRecording
    /\ isRecording => ~StopRefused

\* The step in which a stopRecording call returns drops the handle and clears
\* isRecording.
ReleasedOnReturn ==
    \A r \in Runs :
      run[r].pc \in {"polite", "interrupt", "grace"} /\ run'[r].pc = "settle" =>
        procRef' = NULL /\ ~isRecording'

\* C20: the process handle is held exactly while the session is Recording or
\* Stopping: procRef is non-null if and only if isRecording is true, it is
\* released when the shutdown reaches its terminal outcome, and a Stop invoked
\* while isRecording always has a handle to shut down.
C20_HandleOwnedWhileRecording ==
    /\ []HandleIffRecording
    /\ [][ReleasedOnReturn]_vars

\* A shutdown has ended by exhausting its tiers, the process killed and not yet
\* closed: the handle is released and both flags are clear.
C20_Witness ==
    \E r \in Runs :
      /\ run[r].pc = "settle" /\ run[r].closedIn = "none"
      /\ procRef = NULL /\ ~isRecording /\ ~isStopping
      /\ proc[run[r].child] = "killed"

\* ---------------------------------------------------------------------- C21
RunEnded(r) == run[r].pc = "done"

RunSuspended(r) == run[r].pc \notin {"idle", "done"}

ShutdownBegins == nRuns' # nRuns \/ (isStopping' /\ ~isStopping)

\* A shutdown begins only while a recording is active and its handle is held;
\* from any other state no step sets isStopping or starts an activation.
StopOnlyFromRecording == ShutdownBegins => isRecording /\ procRef # NULL

\* A step of onStop taken while no recording is active, or after the handle was
\* released, changes nothing.
RefusedStopChangesNothing ==
    (~isRecording \/ procRef = NULL) /\ onStop => UNCHANGED vars

\* Neither flag is cleared without the other: the step that clears isRecording
\* or isStopping leaves both clear, and it is the return of a stopRecording call.
FlagsClearedTogether ==
    (isRecording /\ ~isRecording') \/ (isStopping /\ ~isStopping') =>
        /\ ~isRecording' /\ ~isStopping'
        /\ \E r \in Runs : run[r].pc \in {"polite", "interrupt", "grace"}
                             /\ run'[r].pc = "settle"

\* C22: Stopping is entered only from Recording: isStopping implies isRecording
\* in every reachable state, a Stop invoked when no recording is active starts
\* no shutdown and no pipeline and changes nothing, and the two flags are
\* cleared in one step, when a shutdown finishes.
C22_StoppingOnlyFromRecording ==
    /\ [](isStopping => isRecording)
    /\ [][RefusedStopChangesNothing]_vars
    /\ [][StopOnlyFromRecording]_vars
    /\ [][FlagsClearedTogether]_vars

\* A shutdown has finished and a later Stop finds no recording: both flags are
\* clear, the handle is released, and one activation only exists.
C22_Witness ==
    /\ ~isRecording /\ ~isStopping /\ procRef = NULL
    /\ nRuns = 1 /\ run[1].pc \notin {"idle", "polite", "interrupt", "grace"}

\* ---------------------------------------------------------------------- C23
\* Activation r is past its shutdown, in the post-recording pipeline.
InPipeline(r) ==
    run[r].pc \in {"settle", "reading", "fetching", "unlinking", "cleaning", "publishing"}

\* A recording newer than the one activation r stopped is active.
NewerSessionActive(r) == isRecording /\ procRef # NULL /\ procRef # run[r].child

\* A pipeline step of an earlier session's activation leaves the newer session's
\* audioPath, handle and flags as they are.
EarlierPipelineKeepsNewerSession ==
    \A r \in Runs :
        InPipeline(r) /\ NewerSessionActive(r) /\ run'[r] # run[r] =>
            UNCHANGED <<audioPath, procRef, isRecording, isStopping>>

\* An activation whose session's capture holds data does not end at validation
\* with "No audio file written".
CaptureWithDataValidates ==
    \A r \in Runs :
        run[r].pc = "settle" /\ run'[r].result = "NoAudioCaptured" =>
            file[run[r].child] # "data"

\* C23: sessions do not interfere: while a newer recording is active, no step
\* of the earlier session's pipeline clears or changes the newer session's
\* audioPath, process handle or recording flags, and the newer session's
\* captured file passes validation when it is stopped.
C23_SessionsDoNotInterfere ==
    /\ [][EarlierPipelineKeepsNewerSession]_vars
    /\ [][CaptureWithDataValidates]_vars

====
